---- MODULE Spec2Model ----
(***************************************************************************)
(* State-machine model of the service worker src/sw.js: versioned cache    *)
(* partitions, the install and activate lifecycle handlers, the fetch      *)
(* handler with its three strategies, and the push / notification-click    *)
(* handlers.  Every `await` of the source is a step of its own, so that    *)
(* concurrently running handlers interleave exactly at the points where    *)
(* the JavaScript event loop may switch between them.                      *)
(***************************************************************************)
EXTENDS Bags, Naturals, Sequences, FiniteSets, TLC

(* ------------------------------ bounds --------------------------------- *)
\* Number of functional events (fetch, push, notification click) dispatched
\* to the worker in one behaviour.
MaxEvents == 2

(* ----------------------- constants of the script ----------------------- *)
\* sw.js:12 (the source writes the tag with U+2011 hyphens; ASCII here).
VERSION == "2025-07-07-v1"
\* sw.js:13
STATIC_CACHE == "static-" \o VERSION
\* sw.js:14
RUNTIME_CACHE == "runtime-" \o VERSION
\* sw.js:17-26
PRECACHE_URLS ==
  << "/", "/index.html", "/css/styles.css", "/js/main.js",
     "/js/form-secure.js", "/assets/hero.webp", "/assets/mobile.webp",
     "/favicon.ico" >>
\* sw.js:84, the argument of caches.match in networkFirst
OFFLINE_URL == "/offline.html"
\* sw.js:55, the argument of startsWith
ASSET_PREFIX == "/assets"

\* Array.prototype.includes on PRECACHE_URLS (sw.js:55)
Includes(arr, x) == \E i \in 1..Len(arr) : arr[i] = x

\* String.prototype.startsWith (sw.js:55)
StartsWith(s, prefix) ==
  Len(s) >= Len(prefix) /\ SubSeq(s, 1, Len(prefix)) = prefix

\* The manifest as a set of paths.
PrecacheSet == { PRECACHE_URLS[i] : i \in 1..Len(PRECACHE_URLS) }

(* --------------------------- the environment --------------------------- *)
\* location.origin of the worker, and a foreign origin.
SELF_ORIGIN == "https://app.example"
OTHER_ORIGIN == "https://cdn.example"
\* The version tag of the deployment that ran before this one, if any.
PRIOR_VERSION == "2025-06-01-v0"
NO_PRIOR == ""

\* JavaScript `undefined` and Response objects share one record shape so
\* that they can be compared: status 0 is `undefined`.
Undefined == [status |-> 0, body |-> "undefined"]
IsResponse(r) == r.status # 0
\* What the origin server answers: at install time the build's assets, later
\* one of two contents, or an HTTP error status.
PrecachedResponse == [status |-> 200, body |-> "P"]
PriorResponse == [status |-> 200, body |-> "P0"]
NetResponses ==
  { [status |-> 200, body |-> "A"], [status |-> 200, body |-> "B"],
    [status |-> 500, body |-> "E"] }

\* new URL(request.url): origin, pathname and search are separate parts;
\* the pathname carries no query string (sw.js:49).
Url(o, p, s) == [origin |-> o, pathname |-> p, search |-> s]
\* A relative URL string resolved against the worker's location, as
\* cache.addAll and caches.match do with the manifest strings.
Resolve(p) == Url(SELF_ORIGIN, p, "")

(* ------------------------- Cache / CacheStorage ------------------------ *)
\* A Cache is a function from request URLs to responses.  CacheStorage is
\* the sequence of the Cache objects created so far, in creation order:
\*   name    : the partition name the object was created under
\*   live    : the storage still lists the object under that name
\*   entries : the Cache
\* A Cache object is identified by its position.  caches.delete only removes
\* the name: whoever holds the object keeps reading and writing its entries.
EmptyCache == [k \in {} |-> Undefined]
\* Variant of CachePut that keeps an entry already stored under the key.
CachePut_KeepFirst(c, k, r) ==
  IF k \in DOMAIN c THEN c
  ELSE [x \in (DOMAIN c) \cup {k} |-> IF x = k THEN r ELSE c[x]]
\* Variant of CachePut that evicts the other entries of the partition.
CachePut_Evict(c, k, r) == [x \in {k} |-> r]

\* Cache.put: last writer wins per key.
CachePut(c, k, r) == [x \in (DOMAIN c) \cup {k} |-> IF x = k THEN r ELSE c[x]]
\* Cache.match: the stored response for exactly this URL, else undefined.
CacheMatch(c, k) == IF k \in DOMAIN c THEN c[k] ELSE Undefined
\* The Cache objects the storage lists, and their names (caches.keys).
LiveIds(cs) == { i \in DOMAIN cs : cs[i].live }
StorageKeys(cs) == { cs[i].name : i \in LiveIds(cs) }
\* caches.open: open-or-create.
StorageOpen(cs, name) ==
  IF name \in StorageKeys(cs) THEN cs
  ELSE Append(cs, [name |-> name, live |-> TRUE, entries |-> EmptyCache])
\* The Cache object caches.open(name) resolves to, once the name exists.
StorageHandle(cs, name) == CHOOSE i \in LiveIds(cs) : cs[i].name = name
\* The partitions as the storage lists them: name -> Cache.
Partitions(cs) ==
  [n \in StorageKeys(cs) |-> cs[StorageHandle(cs, n)].entries]
\* caches.delete: the name is gone; the Cache object stays with its holders.
StorageDelete(cs, name) ==
  [i \in DOMAIN cs |->
     IF cs[i].live /\ cs[i].name = name THEN [cs[i] EXCEPT !.live = FALSE]
     ELSE cs[i]]
\* cache.put on the opened Cache object h.
StoragePut(cs, h, k, r) ==
  [cs EXCEPT ![h] = [@ EXCEPT !.entries = CachePut(@, k, r)]]
\* cache.addAll: every manifest entry stored under its resolved URL.
\* `fetched` are the entries whose fetch has resolved with an ok response.
RECURSIVE AddAll(_, _, _, _)
AddAll(c, urls, fetched, i) ==
  IF i > Len(urls) THEN c
  ELSE AddAll(IF urls[i] \in fetched
              THEN CachePut(c, Resolve(urls[i]), PrecachedResponse)
              ELSE c,
              urls, fetched, i + 1)

\* The Cache Storage a deployment of PRIOR_VERSION leaves behind: its static
\* partition with the manifest of that build and a runtime partition with a
\* page it had fetched.
RECURSIVE PriorStatic(_, _, _)
PriorStatic(c, urls, i) ==
  IF i > Len(urls) THEN c
  ELSE PriorStatic(CachePut(c, Resolve(urls[i]), PriorResponse), urls, i + 1)
\* cache.addAll on the opened Cache object h.
StorageAddAll(cs, h, urls, fetched) ==
  [cs EXCEPT ![h] = [@ EXCEPT !.entries = AddAll(@, urls, fetched, 1)]]
EmptyStorage == << >>
PriorStorage(v) ==
  IF v = NO_PRIOR THEN EmptyStorage
  ELSE << [name |-> "static-" \o v, live |-> TRUE,
           entries |-> PriorStatic(EmptyCache, PRECACHE_URLS, 1)],
          [name |-> "runtime-" \o v, live |-> TRUE,
           entries |-> CachePut(EmptyCache, Resolve("/about"),
                                PriorResponse)] >>

(* ------------------------------- state --------------------------------- *)
VARIABLES
  prior,           \* version tag of the previous deployment, or NO_PRIOR
  hasDocument,     \* the global scope evaluating the script has `document`
  caches,          \* CacheStorage: the Cache objects created so far
  phase,           \* lifecycle state of the worker
  skipWaiting,     \* self.skipWaiting() was called
  claimed,         \* self.clients.claim() was called
  installPc,       \* position of the install handler's promise chain
  installCache,    \* the Cache object the install handler opened, or 0
  installFetched,  \* manifest entries cache.addAll has fetched so far
  activatePc,      \* position of the activate handler's promise chain
                   \* ("done": fulfilled, "failed": rejected)
  sweepKeys,       \* partitions whose caches.delete is still pending
  tasks,           \* one record per fetch event dispatched so far
  pushLog,         \* one record per push event dispatched so far
  notifications,   \* the notifications on display, a bag
  clicks,          \* one record per notificationclick event so far
  windows,         \* URLs of the open client windows of the worker
  focused,         \* URL of the window client.focus() last focused, or ""
  events           \* number of functional events dispatched so far

envVars == << prior, hasDocument >>
lifecycleVars == << envVars, phase, skipWaiting, claimed, installPc,
                    installCache, installFetched, activatePc, sweepKeys >>
fetchVars == << caches, tasks >>
pushVars == << pushLog, notifications, clicks, windows, focused >>
vars == << prior, hasDocument, caches, phase, skipWaiting, claimed, installPc,
           installCache, installFetched,
           activatePc, sweepKeys, tasks, pushLog, notifications, clicks,
           windows, focused, events >>

\* The browser has fetched the script and is about to evaluate it.  A
\* ServiceWorkerGlobalScope has no `document`; a scope that embeds the
\* file with a document (and its Content-Security-Policy meta element) has.
Init ==
  /\ prior \in {NO_PRIOR, PRIOR_VERSION}
  /\ hasDocument \in BOOLEAN
  /\ caches = PriorStorage(prior)
  /\ phase = "evaluating"
  /\ skipWaiting = FALSE
  /\ claimed = FALSE
  /\ installPc = "idle"
  /\ installCache = 0
  /\ installFetched = {}
  /\ activatePc = "idle"
  /\ sweepKeys = {}
  /\ tasks = << >>
  /\ pushLog = << >>
  /\ notifications = EmptyBag
  /\ clicks = << >>
  /\ windows \in {{}, {"/"}}
  /\ focused = ""
  /\ events = 0

(* -------------------- script evaluation (sw.js:1-245) ------------------ *)
\* The whole file is evaluated top to bottom.  Lines 29-123 register the
\* five listeners; line 141 then reads document.querySelector(...).
\* With a document the evaluation runs to the end of the file.
EvaluateOk ==
  /\ phase = "evaluating"
  /\ hasDocument
  /\ phase' = "parsed"
  /\ UNCHANGED << envVars, installCache, caches, skipWaiting, claimed, installPc,
                  installFetched, activatePc, sweepKeys, tasks, pushVars,
                  events >>

\* Without a document line 141 throws a ReferenceError: the evaluation of
\* the script fails, the worker is not registered and no event is ever
\* dispatched to the listeners.
EvaluateThrow ==
  /\ phase = "evaluating"
  /\ ~hasDocument
  /\ phase' = "failed"
  /\ UNCHANGED << envVars, installCache, caches, skipWaiting, claimed, installPc,
                  installFetched, activatePc, sweepKeys, tasks, pushVars,
                  events >>

(* ------------------------- install (sw.js:29-34) ----------------------- *)
\* The handler body: skipWaiting(), then waitUntil(open.then(addAll)).
InstallEvent ==
  /\ phase = "parsed"
  /\ phase' = "installing"
  /\ skipWaiting' = TRUE
  /\ installPc' = "open"
  /\ UNCHANGED << envVars, installCache, caches, claimed, installFetched, activatePc,
                  sweepKeys, tasks, pushVars, events >>

\* caches.open(STATIC_CACHE) resolves.
InstallOpen ==
  /\ phase = "installing" /\ installPc = "open"
  /\ caches' = StorageOpen(caches, STATIC_CACHE)
  /\ installCache' = StorageHandle(caches', STATIC_CACHE)
  /\ installPc' = "addAll"
  /\ UNCHANGED << envVars, phase, skipWaiting, claimed, installFetched,
                  activatePc, sweepKeys, tasks, pushVars, events >>

\* cache.addAll: the fetch of one manifest entry succeeds.
InstallFetchOk(p) ==
  /\ phase = "installing" /\ installPc = "addAll"
  /\ p \in PrecacheSet \ installFetched
  /\ installFetched' = installFetched \cup {p}
  /\ UNCHANGED << envVars, installCache, caches, phase, skipWaiting, claimed, installPc,
                  activatePc, sweepKeys, tasks, pushVars, events >>

\* cache.addAll: the fetch of one manifest entry fails (network error or a
\* status that is not ok); addAll rejects, nothing is stored, the promise
\* given to waitUntil rejects and the host discards the worker.
InstallFetchFail(p) ==
  /\ phase = "installing" /\ installPc = "addAll"
  /\ p \in PrecacheSet \ installFetched
  /\ installPc' = "failed"
  /\ phase' = "redundant"
  /\ UNCHANGED << envVars, installCache, caches, skipWaiting, claimed, installFetched,
                  activatePc, sweepKeys, tasks, pushVars, events >>

\* Variant of InstallStore that stores what was fetched so far and reports
\* success without waiting for the remaining entries.
InstallStore_Partial ==
  /\ phase = "installing" /\ installPc = "addAll"
  /\ installFetched # {}
  /\ caches' = StorageAddAll(caches, installCache, PRECACHE_URLS,
                            installFetched)
  /\ installPc' = "done"
  /\ phase' = "installed"
  /\ UNCHANGED << envVars, installCache, skipWaiting, claimed, installFetched, activatePc,
                  sweepKeys, tasks, pushVars, events >>

\* cache.addAll: every entry was fetched; all of them are stored and the
\* promise given to waitUntil fulfils.
InstallStore ==
  /\ phase = "installing" /\ installPc = "addAll"
  /\ installFetched = PrecacheSet
  /\ caches' = StorageAddAll(caches, installCache, PRECACHE_URLS,
                            installFetched)
  /\ installPc' = "done"
  /\ phase' = "installed"
  /\ UNCHANGED << envVars, installCache, skipWaiting, claimed, installFetched, activatePc,
                  sweepKeys, tasks, pushVars, events >>

(* ------------------------ activate (sw.js:37-44) ----------------------- *)
\* Variant of ShouldDelete that sweeps static partitions only.
ShouldDelete_StaticOnly(key) ==
  /\ key # STATIC_CACHE /\ key # RUNTIME_CACHE
  /\ StartsWith(key, "static-")
\* sw.js:40, the test applied to every partition name
ShouldDelete(key) == key # STATIC_CACHE /\ key # RUNTIME_CACHE

\* The handler body: waitUntil(keys().then(...)) and, in the same turn,
\* self.clients.claim().
ActivateEvent ==
  /\ phase = "installed"
  /\ phase' = "activating"
  /\ activatePc' = "keys"
  /\ claimed' = TRUE
  /\ UNCHANGED << envVars, installCache, caches, skipWaiting, installPc, installFetched,
                  sweepKeys, tasks, pushVars, events >>

\* caches.keys() resolves; one caches.delete is started per stale name.
ActivateKeys ==
  /\ phase = "activating" /\ activatePc = "keys"
  /\ sweepKeys' = { k \in StorageKeys(caches) : ShouldDelete(k) }
  /\ activatePc' = "delete"
  /\ UNCHANGED << envVars, installCache, caches, phase, skipWaiting, claimed, installPc,
                  installFetched, tasks, pushVars, events >>

\* caches.keys() rejects (the storage backend fails): no caches.delete is
\* started, the chain has no catch, so the promise given to waitUntil
\* rejects.  A rejected activate event does not stop the activation: the
\* host makes the worker active with every partition still in place.
ActivateKeysFail ==
  /\ phase = "activating" /\ activatePc = "keys"
  /\ activatePc' = "failed"
  /\ phase' = "activated"
  /\ UNCHANGED << envVars, installCache, caches, skipWaiting, claimed,
                  installPc, installFetched, sweepKeys, tasks, pushVars,
                  events >>

\* One pending caches.delete lands.
ActivateDelete(k) ==
  /\ phase = "activating" /\ activatePc = "delete"
  /\ k \in sweepKeys
  /\ caches' = StorageDelete(caches, k)
  /\ sweepKeys' = sweepKeys \ {k}
  /\ UNCHANGED << envVars, installCache, phase, skipWaiting, claimed, installPc,
                  installFetched, activatePc, tasks, pushVars, events >>

\* Promise.all fulfils, the promise given to waitUntil fulfils and the host
\* finishes the activation.
ActivateDone ==
  /\ phase = "activating" /\ activatePc = "delete"
  /\ sweepKeys = {}
  /\ activatePc' = "done"
  /\ phase' = "activated"
  /\ UNCHANGED << envVars, installCache, caches, skipWaiting, claimed, installPc,
                  installFetched, sweepKeys, tasks, pushVars, events >>

Lifecycle ==
  \/ EvaluateOk
  \/ EvaluateThrow
  \/ InstallEvent
  \/ InstallOpen
  \/ \E p \in PrecacheSet : InstallFetchOk(p)
  \/ \E p \in PrecacheSet : InstallFetchFail(p)
  \/ InstallStore
  \/ ActivateEvent
  \/ ActivateKeys
  \/ ActivateKeysFail
  \/ \E k \in StorageKeys(caches) : ActivateDelete(k)
  \/ ActivateDone

(* ------------------------------ requests ------------------------------- *)
Request(m, o, p, s, mode) ==
  [method |-> m, url |-> Url(o, p, s), mode |-> mode]

\* The requests the pages issue: a navigation to a precached path, a
\* precached path with a query string, an asset that is under the asset
\* prefix and not in the manifest, a navigation to a page that is not
\* precached, an API read, a form POST, and a foreign-origin resource whose
\* path equals a manifest entry.
Requests ==
  { Request("GET", SELF_ORIGIN, "/index.html", "", "navigate"),
    Request("GET", SELF_ORIGIN, "/css/styles.css", "?v=2", "no-cors"),
    Request("GET", SELF_ORIGIN, "/assets/badge.png", "", "no-cors"),
    Request("GET", SELF_ORIGIN, "/about", "", "navigate"),
    Request("GET", SELF_ORIGIN, "/api/status", "", "cors"),
    Request("POST", SELF_ORIGIN, "/api/submit", "", "cors"),
    Request("GET", OTHER_ORIGIN, "/index.html", "", "cors") }

(* ---------------------- JavaScript values (|| , await) ----------------- *)
\* A value the strategies pass around: a Promise object, a Response object
\* or undefined, with the response it carries or settles to.
JsPromise(r) == [kind |-> "promise", val |-> r]
JsValue(r) ==
  [kind |-> IF IsResponse(r) THEN "response" ELSE "undefined", val |-> r]
\* ToBoolean: every object is truthy, a Promise included; undefined is not.
Truthy(v) == v.kind \in {"promise", "response"}
\* a || b
Or(a, b) == IF Truthy(a) THEN a ELSE b
\* What an async function's promise settles to when it returns v.
Await(v) == v.val

(* --------------------- fetch handler (sw.js:47-68) --------------------- *)
\* Variant of Route without the method test of sw.js:52.
Route_NoMethodCheck(req) ==
  IF /\ req.url.origin = SELF_ORIGIN
     /\ \/ StartsWith(req.url.pathname, ASSET_PREFIX)
        \/ Includes(PRECACHE_URLS, req.url.pathname)
  THEN "cacheFirst"
  ELSE IF req.mode = "navigate" THEN "networkFirst"
  ELSE "staleWhileRevalidate"

\* Variant of Route that tests the navigation mode before the static test.
Route_NavigateFirst(req) ==
  IF req.method # "GET" THEN "none"
  ELSE IF req.mode = "navigate" THEN "networkFirst"
  ELSE IF /\ req.url.origin = SELF_ORIGIN
          /\ \/ StartsWith(req.url.pathname, ASSET_PREFIX)
             \/ Includes(PRECACHE_URLS, req.url.pathname)
       THEN "cacheFirst"
  ELSE "staleWhileRevalidate"

\* The branch the handler takes: "none" when it returns without calling
\* respondWith, else the strategy whose promise it hands to respondWith.
Route(req) ==
  IF req.method # "GET" THEN "none"
  ELSE IF /\ req.url.origin = SELF_ORIGIN
          /\ \/ StartsWith(req.url.pathname, ASSET_PREFIX)
             \/ Includes(PRECACHE_URLS, req.url.pathname)
       THEN "cacheFirst"
  ELSE IF req.mode = "navigate" THEN "networkFirst"
  ELSE "staleWhileRevalidate"

\* The partition a strategy opens (sw.js:72, 78, 89).
StrategyCache(strategy) ==
  IF strategy = "cacheFirst" THEN STATIC_CACHE ELSE RUNTIME_CACHE

\* caches.match: the first partition, in creation order, that holds the URL.
StorageMatchAny(cs, k) ==
  LET hits == { i \in LiveIds(cs) : k \in DOMAIN cs[i].entries } IN
  IF hits = {} THEN Undefined
  ELSE cs[CHOOSE i \in hits : \A j \in hits : i <= j].entries[k]
\* Variant of StorageMatch that looks the request up in the whole storage
\* (caches.match) instead of the opened Cache object.
StorageMatch_AnyPartition(cs, h, k) == StorageMatchAny(cs, k)
\* cache.match on the opened Cache object h.
StorageMatch(cs, h, k) == CacheMatch(cs[h].entries, k)

\* The state of one fetch event.
\*   responded : event.respondWith was called
\*   outcome   : state of the promise given to respondWith ("passthrough"
\*               when the handler did not intercept)
\*   result    : what that promise fulfilled with
\*   cache     : name of the partition the strategy opened
\*   handle    : the Cache object caches.open resolved to (0: not yet)
\*   cached    : what cache.match resolved to
\*   putValue  : the clone handed to cache.put (undefined: no put started)
\*   fetches   : number of fetch(request) calls made by the strategy
\*   cacheOps  : number of cache operations (open, match, put) started
\*   servedFrom: partition the delivered response was read from, if any
\*   after     : the earlier fetch events whose response had been delivered
\*               when this event was dispatched
NewTask(req) ==
  [ req |-> req, strategy |-> Route(req), responded |-> Route(req) # "none",
    pc |-> IF Route(req) = "none" THEN "done" ELSE "open",
    outcome |-> IF Route(req) = "none" THEN "passthrough" ELSE "pending",
    result |-> Undefined, cache |-> "", handle |-> 0, cached |-> Undefined,
    putValue |-> Undefined, fetches |-> 0,
    cacheOps |-> IF Route(req) = "none" THEN 0 ELSE 1, servedFrom |-> "",
    after |-> { j \in DOMAIN tasks : tasks[j].outcome # "pending" } ]

\* The fetch event is dispatched and the handler body runs; a strategy runs
\* up to its first await, that is, it has called caches.open.
FetchEvent(req) ==
  /\ phase = "activated"
  /\ events < MaxEvents
  /\ tasks' = Append(tasks, NewTask(req))
  /\ events' = events + 1
  /\ UNCHANGED << caches, lifecycleVars, pushVars >>

(* ----------------------- strategies (sw.js:71-98) ---------------------- *)
\* `await caches.open(...)` resolves (sw.js:72, 78, 89).  In the same turn
\* networkFirst goes on to call fetch(request), cacheFirst and
\* staleWhileRevalidate to call cache.match(request).
TaskOpen(i) ==
  LET t == tasks[i]
      name == StrategyCache(t.strategy) IN
  /\ t.pc = "open"
  /\ caches' = StorageOpen(caches, name)
  /\ tasks' = [tasks EXCEPT ![i] =
       [t EXCEPT !.cache = name,
                 !.handle = StorageHandle(StorageOpen(caches, name), name),
                 !.cacheOps = IF t.strategy = "networkFirst" THEN @ ELSE @ + 1,
                 !.pc = IF t.strategy = "networkFirst" THEN "fetch" ELSE "match",
                 !.fetches = IF t.strategy = "networkFirst" THEN @ + 1 ELSE @]]
  /\ UNCHANGED << lifecycleVars, pushVars, events >>

\* `await cache.match(request)` resolves (sw.js:73, 90) and the function
\* runs on to its return statement (sw.js:74, 91-97).
TaskMatch(i) ==
  LET t == tasks[i]
      cached == StorageMatch(caches, t.handle, t.req.url)
      hit == Truthy(JsValue(cached)) IN
  /\ t.pc = "match"
  /\ tasks' = [tasks EXCEPT ![i] =
       IF t.strategy = "cacheFirst"
       THEN \* return cached || fetch(request)
            IF hit
            THEN [t EXCEPT !.cached = cached,
                           !.outcome = "fulfilled", !.result = cached,
                           !.servedFrom = t.cache, !.pc = "done"]
            ELSE [t EXCEPT !.cached = cached,
                           !.fetches = @ + 1, !.pc = "fetch"]
       ELSE \* fetchPromise = fetch(request)...; return cached || fetchPromise
            IF hit
            THEN [t EXCEPT !.cached = cached,
                           !.fetches = @ + 1,
                           !.outcome = "fulfilled", !.result = cached,
                           !.servedFrom = t.cache, !.pc = "fetch"]
            ELSE [t EXCEPT !.cached = cached,
                           !.fetches = @ + 1, !.pc = "fetch"]]
  /\ UNCHANGED << caches, lifecycleVars, pushVars, events >>

\* Variant of TaskFetchOk in which cacheFirst stores what it fetched.
TaskFetchOk_StoreStatic(i, r) ==
  LET t == tasks[i] IN
  /\ t.pc = "fetch"
  /\ tasks' = [tasks EXCEPT ![i] =
       [t EXCEPT !.putValue = r, !.cacheOps = @ + 1,
                 !.outcome = "fulfilled",
                 !.result = IF t.outcome = "pending" THEN r ELSE @,
                 !.pc = "put"]]
  /\ UNCHANGED << caches, lifecycleVars, pushVars, events >>

\* Variant of TaskFetchOk in which networkFirst returns a response of an
\* error status without storing it.
TaskFetchOk_SkipErrorStatus(i, r) ==
  LET t == tasks[i] IN
  /\ t.pc = "fetch"
  /\ tasks' = [tasks EXCEPT ![i] =
       IF t.strategy = "cacheFirst"
       THEN [t EXCEPT !.outcome = "fulfilled", !.result = r, !.pc = "done"]
       ELSE IF t.strategy = "networkFirst" /\ r.status >= 400
       THEN [t EXCEPT !.outcome = "fulfilled", !.result = r, !.pc = "done"]
       ELSE [t EXCEPT !.putValue = r, !.cacheOps = @ + 1,
                      !.outcome = "fulfilled",
                      !.result = IF t.outcome = "pending" THEN r ELSE @,
                      !.pc = "put"]]
  /\ UNCHANGED << caches, lifecycleVars, pushVars, events >>

\* fetch(request) resolves with a response, of whatever HTTP status.
TaskFetchOk(i, r) ==
  LET t == tasks[i] IN
  /\ t.pc = "fetch"
  /\ tasks' = [tasks EXCEPT ![i] =
       IF t.strategy = "cacheFirst"
       THEN [t EXCEPT !.outcome = "fulfilled", !.result = r, !.pc = "done"]
       ELSE IF t.strategy = "networkFirst"
       THEN \* cache.put(request, response.clone()); return response
            [t EXCEPT !.putValue = r, !.cacheOps = @ + 1,
                      !.outcome = "fulfilled", !.result = r, !.pc = "put"]
       ELSE \* .then: cache.put(request, networkResponse.clone())
            [t EXCEPT !.putValue = r, !.cacheOps = @ + 1,
                      !.outcome = "fulfilled",
                      !.result = IF t.outcome = "pending" THEN r ELSE @,
                      !.pc = "put"]]
  /\ UNCHANGED << caches, lifecycleVars, pushVars, events >>

\* Variant of TaskFetchFail without the .catch of sw.js:96: the rejection of
\* the fetch reaches the promise staleWhileRevalidate returned.
TaskFetchFail_NoCatch(i) ==
  LET t == tasks[i] IN
  /\ t.pc = "fetch"
  /\ tasks' = [tasks EXCEPT ![i] =
       IF t.strategy = "cacheFirst"
       THEN [t EXCEPT !.outcome = "rejected", !.pc = "done"]
       ELSE IF t.strategy = "networkFirst"
       THEN [t EXCEPT !.cacheOps = @ + 1, !.pc = "fallback"]
       ELSE [t EXCEPT !.outcome = "rejected", !.pc = "done"]]
  /\ UNCHANGED << caches, lifecycleVars, pushVars, events >>

\* Variant of TaskFetchFail in which staleWhileRevalidate, like
\* networkFirst, turns to the fallback chain when its fetch rejects.
TaskFetchFail_Fallback(i) ==
  LET t == tasks[i] IN
  /\ t.pc = "fetch"
  /\ tasks' = [tasks EXCEPT ![i] =
       IF t.strategy = "cacheFirst"
       THEN [t EXCEPT !.outcome = "rejected", !.pc = "done"]
       ELSE [t EXCEPT !.cacheOps = @ + 1, !.pc = "fallback"]]
  /\ UNCHANGED << caches, lifecycleVars, pushVars, events >>

\* fetch(request) rejects with a network error.
TaskFetchFail(i) ==
  LET t == tasks[i] IN
  /\ t.pc = "fetch"
  /\ tasks' = [tasks EXCEPT ![i] =
       IF t.strategy = "cacheFirst"
       THEN [t EXCEPT !.outcome = "rejected", !.pc = "done"]
       ELSE IF t.strategy = "networkFirst"
       THEN \* catch: cache.match(request) is called
            [t EXCEPT !.cacheOps = @ + 1, !.pc = "fallback"]
       ELSE \* .catch(() => {}): fetchPromise fulfils with undefined
            [t EXCEPT !.outcome = "fulfilled", !.pc = "done"]]
  /\ UNCHANGED << caches, lifecycleVars, pushVars, events >>

\* Variant of NetworkFirstCatch that looks the offline page up first.
NetworkFirstCatch_OfflineFirst(cs, t) ==
  Or(JsPromise(StorageMatchAny(cs, Resolve(OFFLINE_URL))),
     JsPromise(StorageMatch(cs, t.handle, t.req.url)))

\* sw.js:84: return cache.match(request) || caches.match('/offline.html').
\* Both operands are Promise objects; the promise of networkFirst settles
\* to whatever the chosen operand settles to.
NetworkFirstCatch(cs, t) ==
  Or(JsPromise(StorageMatch(cs, t.handle, t.req.url)),
     JsPromise(StorageMatchAny(cs, Resolve(OFFLINE_URL))))

TaskFallback(i) ==
  LET t == tasks[i]
      v == Await(NetworkFirstCatch(caches, t)) IN
  /\ t.pc = "fallback"
  /\ tasks' = [tasks EXCEPT ![i] =
       [t EXCEPT !.outcome = "fulfilled", !.result = v,
                 !.cached = StorageMatch(caches, t.handle, t.req.url),
                 !.servedFrom =
                    IF ~IsResponse(v) THEN ""
                    ELSE IF v = StorageMatch(caches, t.handle, t.req.url)
                    THEN t.cache
                    ELSE CHOOSE n \in StorageKeys(caches) :
                           Resolve(OFFLINE_URL)
                             \in DOMAIN Partitions(caches)[n],
                 !.pc = "done"]]
  /\ UNCHANGED << caches, lifecycleVars, pushVars, events >>

\* The write started by cache.put (sw.js:81, 93) lands; nothing awaits it.
TaskPutLand(i) ==
  LET t == tasks[i] IN
  /\ t.pc = "put"
  /\ caches' = StoragePut(caches, t.handle, t.req.url, t.putValue)
  /\ tasks' = [tasks EXCEPT ![i] = [t EXCEPT !.pc = "done"]]
  /\ UNCHANGED << lifecycleVars, pushVars, events >>

Fetching ==
  \/ \E req \in Requests : FetchEvent(req)
  \/ \E i \in DOMAIN tasks : TaskOpen(i)
  \/ \E i \in DOMAIN tasks : TaskMatch(i)
  \/ \E i \in DOMAIN tasks : \E r \in NetResponses : TaskFetchOk(i, r)
  \/ \E i \in DOMAIN tasks : TaskFetchFail(i)
  \/ \E i \in DOMAIN tasks : TaskFallback(i)
  \/ \E i \in DOMAIN tasks : TaskPutLand(i)

(* ---------------------- push handler (sw.js:101-111) ------------------- *)
\* event.data of a push event: null, or a message with this text.
NoData == [present |-> FALSE, text |-> ""]
PushData(text) == [present |-> TRUE, text |-> text]
PushPayloads ==
  { NoData,
    PushData("{}"),
    PushData("{\"title\":\"Status\",\"body\":\"Deployed\",\"url\":\"/news\"}"),
    PushData("{\"body\":\"Deployed\"}"),
    PushData("not json") }

\* PushMessageData.json(): JSON.parse of the text.  ok = FALSE stands for
\* the SyntaxError it throws; an absent property reads as undefined, which
\* is "" here (both are falsy for ||).
EmptyObject == [title |-> "", body |-> "", url |-> ""]
JsonParse(text) ==
  IF text = "{}" THEN [ok |-> TRUE, value |-> EmptyObject]
  ELSE IF text = "{\"title\":\"Status\",\"body\":\"Deployed\",\"url\":\"/news\"}"
  THEN [ok |-> TRUE,
        value |-> [title |-> "Status", body |-> "Deployed", url |-> "/news"]]
  ELSE IF text = "{\"body\":\"Deployed\"}"
  THEN [ok |-> TRUE, value |-> [title |-> "", body |-> "Deployed", url |-> ""]]
  ELSE [ok |-> FALSE, value |-> EmptyObject]

\* sw.js:102: const data = event.data ? event.data.json() : {}
PushParse(data) ==
  IF data.present THEN JsonParse(data.text)
  ELSE [ok |-> TRUE, value |-> EmptyObject]

\* s || dflt on strings
OrDefault(s, dflt) == IF s # "" THEN s ELSE dflt

\* sw.js:103-109: the title and options handed to showNotification
NotificationOf(d) ==
  [ title |-> OrDefault(d.title, "Gabriel Remote Assistants"),
    body |-> OrDefault(d.body, "New update available."),
    icon |-> "/assets/icon-192.png",
    badge |-> "/assets/badge.png",
    data |-> OrDefault(d.url, "/") ]
NoNotification ==
  [title |-> "", body |-> "", icon |-> "", badge |-> "", data |-> ""]

\* The state of one push event.
\*   threw     : json() threw and the handler ended with the exception
\*   shown     : the notification handed to showNotification
\*   pc        : "show" while the showNotification call is pending
\*   waitUntil : state of the promise given to waitUntil ("none": not reached)
\* The push handler runs.  When json() throws, the handler ends with the
\* exception: waitUntil and showNotification are not reached.  Otherwise it
\* returns with the showNotification call pending.
PushEvent(data) ==
  LET parsed == PushParse(data) IN
  /\ phase = "activated"
  /\ events < MaxEvents
  /\ events' = events + 1
  /\ pushLog' = Append(pushLog,
       IF parsed.ok
       THEN [data |-> data, threw |-> FALSE,
             shown |-> NotificationOf(parsed.value),
             pc |-> "show", waitUntil |-> "pending"]
       ELSE [data |-> data, threw |-> TRUE, shown |-> NoNotification,
             pc |-> "done", waitUntil |-> "none"])
  /\ UNCHANGED << caches, lifecycleVars, tasks, notifications, clicks,
                  windows, focused >>

\* showNotification resolves: the notification is on display.  No tag is
\* passed (sw.js:104-109), so a notification equal to one already on
\* display is displayed next to it.
PushShowLand(i) ==
  LET r == pushLog[i] IN
  /\ r.pc = "show"
  /\ notifications' = notifications (+) SetToBag({r.shown})
  /\ pushLog' = [pushLog EXCEPT ![i] =
       [r EXCEPT !.pc = "done", !.waitUntil = "fulfilled"]]
  /\ UNCHANGED << caches, lifecycleVars, tasks, clicks, windows, focused,
                  events >>

\* showNotification rejects (no permission to notify): nothing is displayed.
PushShowReject(i) ==
  LET r == pushLog[i] IN
  /\ r.pc = "show"
  /\ pushLog' = [pushLog EXCEPT ![i] =
       [r EXCEPT !.pc = "done", !.waitUntil = "rejected"]]
  /\ UNCHANGED << caches, lifecycleVars, tasks, notifications, clicks,
                  windows, focused, events >>

(* ---------------- notificationclick handler (sw.js:113-123) ------------ *)
\* The handler body: notification.close(), then waitUntil(matchAll...).
\*   pc        : "matchAll" while clients.matchAll is pending, "host" while
\*               the client.focus() / clients.openWindow() call the callback
\*               returned is pending
\*   did       : what the callback of matchAll called ("focus"/"openWindow")
\*   target    : the window it focuses or the URL it opens
\*   waitUntil : state of the promise given to waitUntil
\*   lifetime  : "extended" while that promise is pending
NotificationClick(n) ==
  /\ phase = "activated"
  /\ events < MaxEvents
  /\ BagIn(n, notifications)
  /\ events' = events + 1
  /\ notifications' = notifications (-) SetToBag({n})
  /\ clicks' = Append(clicks,
       [notification |-> n, pc |-> "matchAll", did |-> "", target |-> "",
        waitUntil |-> "pending", lifetime |-> "extended"])
  /\ UNCHANGED << caches, lifecycleVars, tasks, pushLog, windows, focused >>

\* Variant of ClickResolve that opens a window whether or not one is open.
ClickResolve_AlwaysOpen(i) ==
  LET c == clicks[i] IN
  /\ c.pc = "matchAll"
  /\ clicks' = [clicks EXCEPT ![i] =
       [c EXCEPT !.pc = "host", !.did = "openWindow",
                 !.target = c.notification.data]]
  /\ UNCHANGED << caches, lifecycleVars, tasks, pushLog, notifications,
                  windows, focused, events >>

\* clients.matchAll resolves and the callback runs: it returns
\* client.focus() for the first client or, without any client,
\* clients.openWindow(event.notification.data).  The promise given to
\* waitUntil stays pending until that call settles.
ClickResolve(i) ==
  LET c == clicks[i] IN
  /\ c.pc = "matchAll"
  /\ IF windows # {}
     THEN \E w \in windows :
            clicks' = [clicks EXCEPT ![i] =
              [c EXCEPT !.pc = "host", !.did = "focus", !.target = w]]
     ELSE clicks' = [clicks EXCEPT ![i] =
            [c EXCEPT !.pc = "host", !.did = "openWindow",
                      !.target = c.notification.data]]
  /\ UNCHANGED << caches, lifecycleVars, tasks, pushLog, notifications,
                  windows, focused, events >>

\* client.focus() / clients.openWindow() resolves: the window is focused,
\* or opened, and the event's lifetime ends.
ClickLand(i) ==
  LET c == clicks[i] IN
  /\ c.pc = "host"
  /\ focused' = IF c.did = "focus" THEN c.target ELSE focused
  /\ windows' = IF c.did = "focus" THEN windows ELSE windows \cup {c.target}
  /\ clicks' = [clicks EXCEPT ![i] =
       [c EXCEPT !.pc = "done", !.waitUntil = "fulfilled",
                 !.lifetime = "ended"]]
  /\ UNCHANGED << caches, lifecycleVars, tasks, pushLog, notifications,
                  events >>

\* client.focus() / clients.openWindow() rejects: nothing is focused or
\* opened and the promise given to waitUntil rejects.
ClickReject(i) ==
  LET c == clicks[i] IN
  /\ c.pc = "host"
  /\ clicks' = [clicks EXCEPT ![i] =
       [c EXCEPT !.pc = "done", !.waitUntil = "rejected",
                 !.lifetime = "ended"]]
  /\ UNCHANGED << caches, lifecycleVars, tasks, pushLog, notifications,
                  windows, focused, events >>

Notifying ==
  \/ \E d \in PushPayloads : PushEvent(d)
  \/ \E i \in DOMAIN pushLog : PushShowLand(i)
  \/ \E i \in DOMAIN pushLog : PushShowReject(i)
  \/ \E n \in BagToSet(notifications) : NotificationClick(n)
  \/ \E i \in DOMAIN clicks : ClickResolve(i)
  \/ \E i \in DOMAIN clicks : ClickLand(i)
  \/ \E i \in DOMAIN clicks : ClickReject(i)

Next == Lifecycle \/ Fetching \/ Notifying

Spec == Init /\ [][Next]_vars

(* ------------------ the routing decision on its own -------------------- *)
\* Every combination of method, origin, path, query and mode the handler
\* can be handed, for the routing decision of sw.js:52-67 taken alone.
Methods == {"GET", "POST", "HEAD", "DELETE"}
Origins == {SELF_ORIGIN, OTHER_ORIGIN}
Paths ==
  { "/", "/index.html", "/index.htm", "/assets/hero.webp",
    "/assets/badge.png", "/assetsfoo", "/about", "/api/status",
    "/offline.html" }
Searches == {"", "?v=2"}
Modes == {"navigate", "cors", "no-cors", "same-origin"}
AllRequests ==
  { Request(m, o, p, q, md) :
      m \in Methods, o \in Origins, p \in Paths, q \in Searches,
      md \in Modes }

\* The worker of a first deployment, installed and activated, before any
\* functional event.
InitRoute ==
  /\ prior = NO_PRIOR
  /\ hasDocument = TRUE
  /\ caches = << [name |-> STATIC_CACHE, live |-> TRUE,
                   entries |-> AddAll(EmptyCache, PRECACHE_URLS,
                                      PrecacheSet, 1)] >>
  /\ phase = "activated"
  /\ skipWaiting = TRUE
  /\ claimed = TRUE
  /\ installPc = "done"
  /\ installCache = 1
  /\ installFetched = PrecacheSet
  /\ activatePc = "done"
  /\ sweepKeys = {}
  /\ tasks = << >>
  /\ pushLog = << >>
  /\ notifications = EmptyBag
  /\ clicks = << >>
  /\ windows \in {{}, {"/"}}
  /\ focused = ""
  /\ events = 0

\* The first fetch event, for any request.
RouteEvent(req) == tasks = << >> /\ FetchEvent(req)

NextRoute == \E req \in AllRequests : RouteEvent(req)

SpecRoute == InitRoute /\ [][NextRoute]_vars

(* ============================ properties =============================== *)
\* The entry a partition holds for a URL, looked up by the partition's name.
NamedMatch(cs, name, k) ==
  IF name \in StorageKeys(cs) THEN CacheMatch(Partitions(cs)[name], k)
  ELSE Undefined
InstallSucceeded == phase \in {"installed", "activating", "activated"}
Tasks(strategy) == { i \in DOMAIN tasks : tasks[i].strategy = strategy }
\* A networkFirst execution that took the catch branch and has returned.
FellBack(i) ==
  /\ tasks[i].strategy = "networkFirst"
  /\ tasks[i].pc = "done"
  /\ tasks[i].putValue = Undefined

\* C1: a navigation whose fetch rejects while the runtime partition holds no
\* entry for it is answered with the precached offline page, and the caller
\* always gets a response object.
C1_OfflineFallbackServed ==
  \A i \in DOMAIN tasks :
    (FellBack(i) /\ tasks[i].req.mode = "navigate"
       /\ ~IsResponse(tasks[i].cached))
    => /\ tasks[i].outcome = "fulfilled"
       /\ IsResponse(tasks[i].result)
       /\ tasks[i].result =
            NamedMatch(caches, STATIC_CACHE, Resolve(OFFLINE_URL))

\* C2: a request whose method is not GET is never intercepted: respondWith
\* is not called, the handler starts no cache operation and no fetch, and
\* the step that dispatches it leaves every partition unchanged.
NotIntercepted(t) ==
  /\ ~t.responded
  /\ t.outcome = "passthrough"
  /\ t.pc = "done"
  /\ t.cacheOps = 0 /\ t.fetches = 0
  /\ t.cache = "" /\ t.putValue = Undefined /\ t.servedFrom = ""
C2_NonGetBypassesCaches ==
  /\ [](\A i \in DOMAIN tasks :
          tasks[i].req.method # "GET" => NotIntercepted(tasks[i]))
  /\ [][(Len(tasks') = Len(tasks) + 1
           /\ tasks'[Len(tasks')].req.method # "GET")
        => caches' = caches]_vars
C2_Witness ==
  \E i \in DOMAIN tasks :
    /\ tasks[i].req.method = "POST"
    /\ RUNTIME_CACHE \in StorageKeys(caches)

\* C3: after a successful install every GET request to a manifest path that
\* cacheFirst handles gets the precached copy from the static partition, and
\* cacheFirst calls fetch for none of them.
C3_PrecachedServedWithoutNetwork ==
  \A i \in Tasks("cacheFirst") :
    (/\ InstallSucceeded
     /\ Includes(PRECACHE_URLS, tasks[i].req.url.pathname)
     /\ tasks[i].pc \notin {"open", "match"})
    => /\ tasks[i].fetches = 0
       /\ tasks[i].outcome = "fulfilled"
       /\ tasks[i].result = PrecachedResponse
       /\ tasks[i].servedFrom = STATIC_CACHE

\* C4: of two staleWhileRevalidate calls for one URL, the second dispatched
\* after the first has delivered its response and both with a fetch that
\* resolves: the first, finding nothing cached, delivers the network
\* response and has it stored; the second finds a stored response, delivers
\* it and calls fetch exactly once.
SameUrlInSequence(i, j) ==
  /\ i \in Tasks("staleWhileRevalidate") /\ j \in Tasks("staleWhileRevalidate")
  /\ tasks[i].req.url = tasks[j].req.url
  /\ i \in tasks[j].after
  /\ ~IsResponse(tasks[i].cached)
  /\ IsResponse(tasks[i].putValue)
C4_SecondCallServedFromCache ==
  \A i, j \in DOMAIN tasks :
    (SameUrlInSequence(i, j) /\ tasks[j].pc \in {"put", "done"}
       /\ IsResponse(tasks[j].putValue))
    => /\ tasks[i].result = tasks[i].putValue
       /\ IsResponse(tasks[j].cached)
       /\ tasks[j].result = tasks[j].cached
       /\ tasks[j].servedFrom = RUNTIME_CACHE
       /\ tasks[j].fetches = 1

Writers(u) ==
  { i \in DOMAIN tasks :
      /\ tasks[i].cache = RUNTIME_CACHE
      /\ tasks[i].req.url = u
      /\ IsResponse(tasks[i].putValue) }
RacingPair(i, j) ==
  /\ i \in Tasks("staleWhileRevalidate") /\ j \in Tasks("staleWhileRevalidate")
  /\ i # j
  /\ tasks[i].req.url = tasks[j].req.url
  /\ tasks[i].pc = "done" /\ tasks[j].pc = "done"
  /\ IsResponse(tasks[i].putValue) /\ IsResponse(tasks[j].putValue)
  /\ tasks[i].putValue # tasks[j].putValue
  /\ Writers(tasks[i].req.url) = {i, j}
C6_LastWriterWins ==
  /\ [](\A i, j \in DOMAIN tasks :
          RacingPair(i, j)
          => NamedMatch(caches, RUNTIME_CACHE, tasks[i].req.url)
               \in {tasks[i].putValue, tasks[j].putValue})
  /\ [][\A i \in DOMAIN tasks :
          (tasks[i].pc = "put" /\ tasks'[i].pc = "done")
          => NamedMatch(caches', RUNTIME_CACHE, tasks[i].req.url)
               = tasks[i].putValue]_vars
\* The second execution was dispatched while the first had not delivered its
\* response, and the write of the first landed after the write of the second.
C6_Witness ==
  /\ Len(tasks) >= 2
  /\ RacingPair(1, 2)
  /\ 1 \notin tasks[2].after
  /\ NamedMatch(caches, RUNTIME_CACHE, tasks[1].req.url) = tasks[1].putValue

\* C7: a push event without payload, or with a payload that is not valid
\* JSON, does not fail: a notification with the default title, the default
\* body and the target "/" is displayed.
C7_PushNeverFails ==
  \A k \in DOMAIN pushLog :
    (~pushLog[k].data.present \/ ~JsonParse(pushLog[k].data.text).ok)
    => /\ ~pushLog[k].threw
       /\ pushLog[k].shown = NotificationOf(EmptyObject)
       /\ pushLog[k].shown.data = "/"

\* C8: install is all-or-nothing.  A failed manifest fetch makes the install
\* fail and leaves no manifest entry in the static partition; the install
\* is reported successful only when every entry was fetched and is stored.
Stored(p) == IsResponse(NamedMatch(caches, STATIC_CACHE, Resolve(p)))
C8_InstallAllOrNothing ==
  /\ installPc = "failed" <=> phase = "redundant"
  /\ phase = "redundant" => \A p \in PrecacheSet : ~Stored(p)
  /\ InstallSucceeded
     => /\ installPc = "done"
        /\ installFetched = PrecacheSet
        /\ \A p \in PrecacheSet : Stored(p)
  /\ phase = "installing" => installPc \in {"open", "addAll"}
C8_Witness ==
  /\ phase = "redundant"
  /\ installFetched # {}
  /\ STATIC_CACHE \in StorageKeys(caches)

\* C9: the offline fallback path is a manifest entry, so after a successful
\* install the static partition holds the offline page.
C9_OfflinePagePrecached ==
  InstallSucceeded
  => /\ Includes(PRECACHE_URLS, OFFLINE_URL)
     /\ IsResponse(NamedMatch(caches, STATIC_CACHE, Resolve(OFFLINE_URL)))

\* C10: every response a strategy delivers from a cache was read from the
\* static or the runtime partition of the worker's own version, and is no
\* response a deployment of another version stored, also while partitions
\* of an older version exist (an activation whose sweep did not take place).
OwnPartitions == {"static-" \o VERSION, "runtime-" \o VERSION}
OlderPartitions == StorageKeys(caches) \ OwnPartitions
C10_OnlyOwnVersionServed ==
  \A i \in DOMAIN tasks :
    /\ tasks[i].cache # "" => tasks[i].cache \in OwnPartitions
    /\ tasks[i].handle # 0
       => caches[tasks[i].handle].name \in OwnPartitions
    /\ tasks[i].cached # PriorResponse
    /\ tasks[i].servedFrom # ""
       => /\ tasks[i].servedFrom \in OwnPartitions
          /\ tasks[i].result # PriorResponse
    /\ (IsResponse(tasks[i].cached) /\ tasks[i].result = tasks[i].cached)
       => tasks[i].servedFrom \in OwnPartitions
\* A strategy delivered a response from a cache while a partition of the
\* older version existed and held an entry for the same URL.
C10_Witness ==
  /\ prior = PRIOR_VERSION
  /\ \E i \in DOMAIN tasks :
       /\ tasks[i].servedFrom \in OwnPartitions
       /\ tasks[i].result = tasks[i].cached
       /\ \E n \in OlderPartitions :
            /\ tasks[i].req.url \in DOMAIN Partitions(caches)[n]
            /\ Partitions(caches)[n][tasks[i].req.url] = PriorResponse

\* C11: a notification click closes the notification first; when the
\* client list resolves, the handler focuses an existing window and opens
\* none, or, without any window, opens one at the URL the notification
\* carries ("/" for a notification made from the payload {}); the event's
\* lifetime stays extended until that call has settled.
ClickDispatched ==
  LET n == clicks'[Len(clicks')].notification IN
  /\ Len(clicks') = Len(clicks) + 1
  /\ BagIn(n, notifications)
  /\ CopiesIn(n, notifications') = CopiesIn(n, notifications) - 1
  /\ windows' = windows /\ focused' = focused
ClickResolved(k) ==
  /\ IF windows # {}
     THEN /\ clicks'[k].did = "focus"
          /\ clicks'[k].target \in windows
     ELSE /\ clicks'[k].did = "openWindow"
          /\ clicks'[k].target = clicks[k].notification.data
  /\ windows' = windows
ClickLanded(k) ==
  clicks'[k].waitUntil = "fulfilled"
  => IF clicks[k].did = "focus"
     THEN focused' = clicks[k].target /\ windows' = windows
     ELSE windows' = windows \cup {clicks[k].target}
C11_ClickFocusesOrOpens ==
  /\ [](\A k \in DOMAIN clicks :
          /\ clicks[k].pc = "matchAll"
             => clicks[k].lifetime = "extended" /\ clicks[k].did = ""
          /\ clicks[k].pc = "host"
             => /\ clicks[k].lifetime = "extended"
                /\ clicks[k].did \in {"focus", "openWindow"}
          /\ clicks[k].lifetime = "ended" <=> clicks[k].pc = "done"
          /\ clicks[k].lifetime = "ended" <=> clicks[k].waitUntil # "pending"
          /\ (/\ clicks[k].did = "openWindow"
              /\ clicks[k].notification = NotificationOf(EmptyObject))
             => clicks[k].target = "/")
  /\ [][/\ Len(clicks') # Len(clicks) => ClickDispatched
        /\ \A k \in DOMAIN clicks :
             /\ (clicks[k].pc = "matchAll" /\ clicks'[k].pc # "matchAll")
                => clicks'[k].pc = "host" /\ ClickResolved(k)
             /\ (clicks[k].pc = "host" /\ clicks'[k].pc # "host")
                => clicks'[k].pc = "done" /\ ClickLanded(k)]_vars
C11_Witness ==
  \E k \in DOMAIN clicks :
    /\ clicks[k].pc = "done"
    /\ clicks[k].waitUntil = "fulfilled"
    /\ clicks[k].did = "openWindow"
    /\ clicks[k].target = "/"
    /\ \E j \in DOMAIN pushLog : pushLog[j].data = PushData("{}")
    /\ windows = {"/"}
    /\ notifications = EmptyBag

\* C12: the handler's routing picks exactly one outcome for every request:
\* no interception for a method other than GET; cacheFirst for a GET to the
\* worker's origin whose path starts with the asset prefix or is a manifest
\* entry, a navigation included; networkFirst for any other GET that is a
\* navigation; staleWhileRevalidate for every GET left; respondWith is
\* called for every GET and for nothing else.
IsStaticRequest(req) ==
  /\ req.url.origin = SELF_ORIGIN
  /\ \/ StartsWith(req.url.pathname, "/assets")
     \/ req.url.pathname \in PrecacheSet
C12_RoutingIsTotal ==
  \A i \in DOMAIN tasks :
    LET t == tasks[i]
        req == tasks[i].req IN
    /\ t.strategy \in
         {"none", "cacheFirst", "networkFirst", "staleWhileRevalidate"}
    /\ t.strategy = "none" <=> req.method # "GET"
    /\ t.responded <=> req.method = "GET"
    /\ t.strategy = "cacheFirst"
         <=> (req.method = "GET" /\ IsStaticRequest(req))
    /\ t.strategy = "networkFirst"
         <=> (req.method = "GET" /\ ~IsStaticRequest(req)
                /\ req.mode = "navigate")
    /\ t.strategy = "staleWhileRevalidate"
         <=> (req.method = "GET" /\ ~IsStaticRequest(req)
                /\ req.mode # "navigate")
C12_Witness ==
  \E i \in DOMAIN tasks :
    /\ tasks[i].req = Request("GET", SELF_ORIGIN, "/index.html", "", "navigate")
    /\ tasks[i].strategy = "cacheFirst"
    /\ tasks[i].responded

\* C13: clients.claim() is called only after the sweep: whenever the worker
\* has claimed its clients, every caches.delete of the sweep has completed
\* and no partition of another version exists.
C13_ClaimAfterSweep ==
  claimed
  => /\ sweepKeys = {}
     /\ StorageKeys(caches) \subseteq {"static-" \o VERSION, "runtime-" \o VERSION}

\* C14: a staleWhileRevalidate execution that found an entry for its URL
\* delivers that entry, whether the background fetch then resolves, rejects
\* or stays pending; a rejection of the background fetch never reaches the
\* caller.
C14_StaleServedWhateverTheFetchDoes ==
  \A i \in Tasks("staleWhileRevalidate") :
    /\ tasks[i].outcome # "rejected"
    /\ IsResponse(tasks[i].cached)
       => /\ tasks[i].pc \in {"fetch", "put", "done"}
          /\ tasks[i].outcome = "fulfilled"
          /\ tasks[i].result = tasks[i].cached
          /\ tasks[i].servedFrom = RUNTIME_CACHE
\* The entry was delivered and the background fetch has rejected.
C14_Witness ==
  \E i \in Tasks("staleWhileRevalidate") :
    /\ IsResponse(tasks[i].cached)
    /\ tasks[i].pc = "done"
    /\ ~IsResponse(tasks[i].putValue)
    /\ tasks[i].result = tasks[i].cached

\* C15: once install has succeeded the static partition keeps exactly the
\* entries install stored, whatever fetch, push and click events follow;
\* a cacheFirst execution that misses delivers what the network answered
\* and starts no write, and none of its steps changes a partition.
InstalledEntries ==
  [u \in { Resolve(p) : p \in PrecacheSet } |-> PrecachedResponse]
C15_StaticPartitionFrozen ==
  /\ [](InstallSucceeded => Partitions(caches)[STATIC_CACHE] = InstalledEntries)
  /\ [](\A i \in Tasks("cacheFirst") :
          /\ tasks[i].putValue = Undefined
          /\ tasks[i].pc # "put"
          /\ (tasks[i].pc = "done" /\ ~IsResponse(tasks[i].cached)
                /\ tasks[i].outcome = "fulfilled")
             => tasks[i].result \in NetResponses /\ tasks[i].fetches = 1)
  /\ [][\A i \in DOMAIN tasks :
          (tasks[i].strategy = "cacheFirst" /\ tasks'[i] # tasks[i])
          => caches' = caches]_vars
C15_Witness ==
  \E i \in Tasks("cacheFirst") :
    /\ tasks[i].pc = "done"
    /\ ~IsResponse(tasks[i].cached)
    /\ tasks[i].result \in NetResponses
    /\ Partitions(caches)[STATIC_CACHE] = InstalledEntries
    /\ RUNTIME_CACHE \in StorageKeys(caches)

\* C16: when the extended lifetime of an install, activate or fetch event
\* ends (the promise given to waitUntil or respondWith has settled), no
\* cache write and no revalidation fetch the handler started is pending.
C16_LifetimeCoversEveryStep ==
  /\ installPc \in {"done", "failed"} => phase # "installing"
  /\ InstallSucceeded => \A p \in PrecacheSet : Stored(p)
  /\ activatePc = "done" => sweepKeys = {}
  /\ \A i \in DOMAIN tasks :
       (tasks[i].responded /\ tasks[i].outcome \in {"fulfilled", "rejected"})
       => tasks[i].pc \notin {"fetch", "put"}

\* C17: networkFirst takes its fallback chain only when the fetch rejects.
\* A fetch that resolves, with whatever HTTP status, is the response
\* delivered, and a copy of it is written to the runtime partition under
\* the request's URL, replacing what was stored there.
C17_LiveResponseReturnedAndStored ==
  /\ [](\A i \in Tasks("networkFirst") :
          /\ IsResponse(tasks[i].putValue)
             => /\ tasks[i].pc \in {"put", "done"}
                /\ tasks[i].outcome = "fulfilled"
                /\ tasks[i].result = tasks[i].putValue
                /\ tasks[i].servedFrom = ""
                /\ tasks[i].cacheOps = 2
          /\ (tasks[i].outcome = "fulfilled" /\ tasks[i].servedFrom = ""
                /\ IsResponse(tasks[i].result))
             => tasks[i].putValue = tasks[i].result
          /\ (tasks[i].pc = "fallback" \/ tasks[i].servedFrom # "")
             => tasks[i].putValue = Undefined)
  /\ [][\A i \in DOMAIN tasks :
          (tasks[i].strategy = "networkFirst" /\ tasks[i].pc = "put"
             /\ tasks'[i].pc = "done")
          => /\ RUNTIME_CACHE \in StorageKeys(caches')
             /\ tasks[i].req.url \in DOMAIN Partitions(caches')[RUNTIME_CACHE]
             /\ Partitions(caches')[RUNTIME_CACHE][tasks[i].req.url] = tasks[i].putValue
             /\ \A u \in DOMAIN Partitions(caches)[RUNTIME_CACHE] \ {tasks[i].req.url} :
                  Partitions(caches')[RUNTIME_CACHE][u] = Partitions(caches)[RUNTIME_CACHE][u]]_vars

\* An error response replaced the entry an earlier execution had stored.
C17_Witness ==
  /\ Len(tasks) = 2
  /\ \A i \in {1, 2} : /\ tasks[i].strategy = "networkFirst"
                       /\ tasks[i].pc = "done"
  /\ tasks[1].req.url = tasks[2].req.url
  /\ tasks[1].putValue.status = 200
  /\ tasks[2].putValue.status = 500
  /\ tasks[2].result = tasks[2].putValue
  /\ 1 \in tasks[2].after
  /\ Partitions(caches)[RUNTIME_CACHE][tasks[2].req.url] = tasks[2].putValue

\* C18: when the fetch of networkFirst rejects and the runtime partition
\* holds an entry for the request, that entry is the response delivered,
\* not the offline page.
C18_RuntimeEntryBeforeOfflinePage ==
  \A i \in DOMAIN tasks :
    (FellBack(i) /\ IsResponse(tasks[i].cached))
    => /\ tasks[i].outcome = "fulfilled"
       /\ tasks[i].result = tasks[i].cached
       /\ tasks[i].servedFrom = RUNTIME_CACHE
       /\ tasks[i].cacheOps = 2

\* A navigation stored its response; the same navigation then failed and
\* was answered with the stored response.
C18_Witness ==
  /\ Len(tasks) = 2
  /\ tasks[1].strategy = "networkFirst"
  /\ tasks[1].pc = "done"
  /\ IsResponse(tasks[1].putValue)
  /\ tasks[2].req = tasks[1].req
  /\ FellBack(2)
  /\ tasks[2].cached = tasks[1].putValue
  /\ tasks[2].result = tasks[1].putValue

\* C19: no step removes an entry from a partition that stays: the keys of
\* every partition only grow.  A partition disappears only as a whole, by
\* the sweeper, and only when its name is neither the current static nor
\* the current runtime name.
C19_EntriesNeverRemoved ==
  [][/\ \A n \in StorageKeys(caches) \cap StorageKeys(caches') :
          DOMAIN Partitions(caches)[n] \subseteq DOMAIN Partitions(caches')[n]
     /\ \A n \in StorageKeys(caches) \ StorageKeys(caches') :
          /\ n \notin {STATIC_CACHE, RUNTIME_CACHE}
          /\ phase = "activating"
          /\ n \in sweepKeys]_vars

\* The sweeper removed the partitions of the prior version, and two fetch
\* events left two entries in the runtime partition.
C19_Witness ==
  /\ prior = PRIOR_VERSION
  /\ phase = "activated"
  /\ StorageKeys(caches) = {STATIC_CACHE, RUNTIME_CACHE}
  /\ Cardinality(DOMAIN Partitions(caches)[RUNTIME_CACHE]) = 2
  /\ \A i \in DOMAIN tasks : tasks[i].pc = "done"

\* The fetch of execution i has rejected: cacheFirst rejects with it,
\* networkFirst is in or past its catch branch, staleWhileRevalidate has
\* finished without a response to store.
FetchRejected(i) ==
  /\ tasks[i].fetches = 1
  /\ ~IsResponse(tasks[i].putValue)
  /\ \/ tasks[i].strategy = "cacheFirst" /\ tasks[i].outcome = "rejected"
     \/ tasks[i].strategy = "networkFirst"
          /\ tasks[i].pc \in {"fallback", "done"}
     \/ tasks[i].strategy = "staleWhileRevalidate" /\ tasks[i].pc = "done"

\* C20: a fetch that rejects changes no cache.  The step in which the
\* rejection is handled, and the fallback lookup after it, leave every
\* partition as it was and start no write; while no execution has fetched
\* a response to store, the static partition is as installed and the
\* runtime partition is empty.  A staleWhileRevalidate execution without a
\* cached copy whose fetch rejects delivers no response and looks nothing
\* else up.
C20_FailedFetchChangesNoCache ==
  /\ [][\A i \in DOMAIN tasks :
          (tasks'[i] # tasks[i] /\ ~FetchRejected(i) /\ FetchRejected(i)')
            \/ (tasks'[i] # tasks[i] /\ FetchRejected(i))
          => /\ caches' = caches
             /\ tasks'[i].pc # "put"]_vars
  /\ []((phase = "activated"
           /\ \A i \in DOMAIN tasks :
                ~IsResponse(tasks[i].putValue) \/ tasks[i].pc = "put")
        => /\ Partitions(caches)[STATIC_CACHE] = InstalledEntries
           /\ RUNTIME_CACHE \in StorageKeys(caches)
                => Partitions(caches)[RUNTIME_CACHE] = EmptyCache)
  /\ [](\A i \in Tasks("staleWhileRevalidate") :
          /\ tasks[i].pc # "fallback"
          /\ (FetchRejected(i) /\ ~IsResponse(tasks[i].cached))
             => /\ tasks[i].outcome = "fulfilled"
                /\ ~IsResponse(tasks[i].result)
                /\ tasks[i].servedFrom = ""
                /\ tasks[i].cacheOps = 2)

\* One execution of each kind of outcome: a DYNAMIC request without a
\* cached copy failed and delivered nothing; a navigation failed as well;
\* the runtime partition exists and is empty.
C20_Witness ==
  /\ Len(tasks) = 2
  /\ tasks[1].strategy = "staleWhileRevalidate"
  /\ tasks[2].strategy = "networkFirst"
  /\ \A i \in {1, 2} : FetchRejected(i) /\ tasks[i].pc = "done"
  /\ ~IsResponse(tasks[1].cached)
  /\ ~IsResponse(tasks[1].result)
  /\ RUNTIME_CACHE \in StorageKeys(caches)
  /\ Partitions(caches)[RUNTIME_CACHE] = EmptyCache
  /\ Partitions(caches)[STATIC_CACHE] = InstalledEntries

====
